---- MODULE Spec2Model ----
(***************************************************************************)
(* The remote job client of smart-predictor: streamlit_app/databricks_api  *)
(* (upload, trigger, poll, read-back), streamlit_app/dbx_utils and the     *)
(* prediction loader of streamlit_app/app.py, as state machines.  One      *)
(* action is one HTTP request together with the code that runs from its    *)
(* response up to the next request or the return.  The remote system       *)
(* chooses every response.                                                 *)
(***************************************************************************)
EXTENDS Integers, Sequences, FiniteSets, TLC

VARIABLES
    configured,   \* DATABRICKS_HOST and DATABRICKS_TOKEN are both non-empty
    pc,           \* where the running function stands
    entry,        \* the function the caller invoked
    result,       \* what the function returned
    log,          \* the requests sent by the running call, in order
    file,         \* file_obj: [size, pos]
    pos0,         \* the read position file_obj had when the function was called
    path,         \* destination path of the upload
    overwrite,    \* overwrite flag of the upload
    chunk_size,   \* chunk_size of dbfs_upload_chunked
    chunk,        \* the bytes about to be sent: a slice [from, to) of the file
    handle,       \* the handle returned by dbfs/create
    chunk_count,  \* chunk_count of dbfs_upload_chunked
    total_size,   \* total_size of dbfs_upload_chunked
    store,        \* the remote file store: path -> file
    servesOpen,   \* whether the remote serves a file whose stream was never closed
    job_id,       \* job_id of run_job; the id run_job_now found
    job_name,     \* job_name of run_job_now
    run_id,       \* run_id read from the run-now response
    attempt,      \* attempt of run_job's polling loop
    nPoll,        \* status requests sent by the running call
    polled,       \* the run ids the status requests asked for
    seen,         \* the state the last answered status request showed
    run,          \* the remote system's run
    remoteJobs,   \* the remote system's jobs, as jobs/list returns them
    cand,         \* load_predictions_smart: index of the candidate being tried
    base,         \* enhanced_debug_prediction_files: index of the base path
    files,        \* the files listed in the base path
    fidx,         \* index of the listed file being looked at
    found,        \* found_files: the paths of the files read and parsed
    ss,           \* st.session_state of each browser session of app.py
    apc,          \* where each browser session's script run stands
    inflight,     \* the upload each browser session has in progress
    clock,        \* datetime.utcnow(), in seconds
    uploads,      \* the uploads the application started, in order
    reads,        \* the retrievals of prediction artifacts the application made
    scored,       \* sessions in which a score job was seen TERMINATED, SUCCESS
    last,         \* the script run a browser session made last, as watched
    active,       \* the jobs of a session with a run the remote has not ended
    stored        \* the paths of the uploads that returned success

upVars == <<file, pos0, path, overwrite, chunk_size, chunk, handle, chunk_count,
           total_size>>
jobVars == <<job_id, job_name, run_id, attempt, nPoll, polled, seen, run, remoteJobs>>
loadVars == <<cand, base, files, fidx, found>>
obsVars == <<last, active, stored>>
appVars == <<ss, apc, inflight, clock, uploads, reads, scored, obsVars>>
vars == <<configured, pc, entry, result, log, upVars, store, servesOpen, jobVars,
          loadVars, appVars>>

----------------------------------------------------------------------------
(* Sizes.  The program's sizes are kept in bytes.                          *)

MB == 1024 * 1024
PUT_LIMIT == 10 * 1024 * 1024            \* dbfs_put_single, line 47
SIMPLE_THRESHOLD == 10 * 1024 * 1024     \* upload_to_dbfs_simple, line 152
DEFAULT_CHUNK_SIZE == 1 * 1024 * 1024    \* dbfs_upload_chunked, line 70

MaxSmall == 4      \* small payloads have 0..MaxSmall bytes
MaxChunk == 2      \* small chunk sizes are 1..MaxChunk bytes
MaxExtraMB == 2    \* large payloads reach SIMPLE_THRESHOLD + MaxExtraMB MB

Ceil(n, c) == (n + c - 1) \div c
Min(a, b) == IF a < b THEN a ELSE b

FileSizes ==
    (0 .. MaxSmall)
      \cup {SIMPLE_THRESHOLD - 1, SIMPLE_THRESHOLD, SIMPLE_THRESHOLD + 1}
      \cup {SIMPLE_THRESHOLD + k * MB : k \in 1 .. MaxExtraMB}
ChunkSizes == (1 .. MaxChunk) \cup {DEFAULT_CHUNK_SIZE, 2 * DEFAULT_CHUNK_SIZE}
MaxBlocks == SIMPLE_THRESHOLD \div MB + MaxExtraMB + 1

(* A binary file object (the callers pass Streamlit's UploadedFile, a       *)
(* BytesIO): its size and its read position.  Its bytes do not change while *)
(* it is uploaded, so a run of bytes is named by its offsets [from, to).    *)
FileObjects ==
    UNION {{[size |-> n, pos |-> p] : p \in {0, n}} : n \in FileSizes}
Slice(a, b) == [from |-> a, to |-> b]
SliceLen(s) == s.to - s.from
NoChunk == Slice(0, 0)

\* file_obj.read(): the bytes from the read position to the end
ReadAll(f) == Slice(f.pos, f.size)
\* file_obj.read(n): at most n bytes from the read position
ReadN(f, n) == Slice(f.pos, Min(f.pos + n, f.size))
\* the file object after reading slice s
AfterRead(f, s) == [f EXCEPT !.pos = s.to]
\* file_obj.seek(0); without it a read goes on from where the file object is
Seek0_stay(f) == f
Seek0(f) == [f EXCEPT !.pos = 0]
\* file_obj.seek(0, 2); file_obj.tell()
SizeOf(f) == f.size

----------------------------------------------------------------------------
(* Responses.  requests.post either raises (no response: exc) or returns a  *)
(* response with a status code; the DBFS and Jobs APIs answer 200 or an     *)
(* error status.                                                            *)

StatusCodes == {200, 400, 500}
Responses ==
    [exc : {FALSE}, code : StatusCodes] \cup {[exc |-> TRUE, code |-> 0]}
Is2xx(r) == ~r.exc /\ r.code >= 200 /\ r.code < 300

\* Response.raise_for_status(): raises HTTPError on a 4xx or 5xx status
RaisesForStatus(r) == r.code >= 400 /\ r.code < 600
\* requests.post(...) followed by raise_for_status(): does control go on?
PostSucceeded(r) == ~r.exc /\ ~RaisesForStatus(r)

----------------------------------------------------------------------------
(* The remote file store.  A file is the blocks written to it and whether   *)
(* its write stream was closed; dbfs/put writes and closes in one call.     *)

(* A file's kind says what a reader finds in it: "csv" parses as CSV,       *)
(* "badcsv" is text that does not.  The session id is "S".                  *)
UploadPath == "/FileStore/tmp/S/data.csv"
Paths == {UploadPath}
NoFile == [exists |-> FALSE, blocks |-> <<>>, closed |-> FALSE, kind |-> "none"]
OldFile == [exists |-> TRUE, blocks |-> <<Slice(0, 1)>>, closed |-> TRUE,
            kind |-> "csv"]
\* the file a dbfs/create of an upload opens: the uploader takes CSV files
OpenFile == [exists |-> TRUE, blocks |-> <<>>, closed |-> FALSE, kind |-> "csv"]
NoHandle == [for |-> "none"]

\* A payload as it travels: the bytes encoded, the encoding, and the number
\* of characters.  base64.b64encode(b).decode("utf-8") and bytes.hex().
B64Encode(b) == [bytes |-> b, enc |-> "base64", chars |-> 4 * Ceil(SliceLen(b), 3)]
HexEncode(b) == [bytes |-> b, enc |-> "hex", chars |-> 2 * SliceLen(b)]
NoPayload == [bytes |-> NoChunk, enc |-> "none", chars |-> 0]
\* The remote decodes every payload as base64.  Hexadecimal digits are base64
\* characters, so a hex payload whose length is a multiple of 4 decodes too,
\* to other bytes than the ones encoded; any other hex payload is refused.
RemoteDecodes(p) == p.enc = "base64" \/ p.chars % 4 = 0
RemoteDecode(p) ==
    IF p.enc = "base64" THEN p.bytes ELSE Slice(0, (3 * p.chars) \div 4)
\* the file a dbfs/put of payload p writes
PutPayload(p) ==
    [exists |-> TRUE, blocks |-> <<RemoteDecode(p)>>, closed |-> TRUE,
     kind |-> IF p.enc = "base64" THEN "csv" ELSE "garbled"]

\* whether a read of path p can return bytes.  The client cannot tell whether
\* the remote serves the blocks of a stream that was never closed: servesOpen.
Readable(p) ==
    /\ store[p].exists
    /\ store[p].blocks # <<>>
    /\ store[p].closed \/ servesOpen

\* whether the remote can answer 200 to a write of path p
RemoteAllowsWrite(p, ow) == ow \/ ~store[p].exists

----------------------------------------------------------------------------
(* Results.                                                                 *)

\* a message: its fixed text and the value formatted into it
Msg(text, arg) == [text |-> text, arg |-> arg]

NoResult == [status |-> "none"]
ErrCredentials ==
    [status |-> "error",
     message |-> Msg("Databricks credentials not configured", "")]
ErrTooLarge ==
    [status |-> "error",
     message |-> Msg("File too large for single upload. Use chunked upload.", "")]
ErrUploadFailed == [status |-> "error", message |-> Msg("Upload failed", "")]
ErrChunkedFailed ==
    [status |-> "error", message |-> Msg("Chunked upload failed", "")]
PutSuccess == [status |-> "success", message |-> Msg("File uploaded to", "path")]
ChunkedSuccess(n, total) ==
    [status |-> "success",
     message |-> Msg("File uploaded successfully in chunks", ToString(n)),
     bytes |-> total]

Request(ep, data, r) == [ep |-> ep, data |-> data, resp |-> r]
Sent(ep) == {i \in 1 .. Len(log) : log[i].ep = ep}
Count(ep) == Cardinality(Sent(ep))

Return(res) == pc' = "done" /\ result' = res

----------------------------------------------------------------------------
(* The remote system's jobs and runs.  A run moves PENDING -> RUNNING ->    *)
(* (TERMINATING) -> TERMINATED, SKIPPED or INTERNAL_ERROR; a TERMINATED run *)
(* has a result_state, which the status response may omit ("None").         *)

MaxJobs == 2       \* jobs/list returns at most MaxJobs jobs

JobEntries ==
    {[name |-> "ingest", job_id |-> "J1"], [name |-> "train", job_id |-> "J2"],
     [name |-> "ingest", job_id |-> "J3"]}
JobLists == UNION {[1 .. n -> JobEntries] : n \in 0 .. MaxJobs}
JobNames == {"ingest", "train", "score"}
JobIds == {"J1", "J2", "J3"}
KnownJobs == {remoteJobs[i].job_id : i \in 1 .. Len(remoteJobs)}
RunIds == {"r1", "r2"}

NoRun == [exists |-> FALSE, id |-> "none", life_cycle |-> "none",
          result_state |-> "None"]
NewRun(id) == [exists |-> TRUE, id |-> id, life_cycle |-> "PENDING",
               result_state |-> "None"]
\* seen: the status code of the last status response (0: none, or the
\* request raised), whether it delivered a state, and the last state delivered
NotSeen == [code |-> 0, ok |-> FALSE, life_cycle |-> "none",
            result_state |-> "None"]
Unanswered(s, r) == [s EXCEPT !.code = r.code, !.ok = FALSE]
ResultStates == {"SUCCESS", "FAILED", "TIMEDOUT", "CANCELED", "None"}
TerminalStates == {"TERMINATED", "SKIPPED", "INTERNAL_ERROR"}

RunSuccessors(r) ==
    LET to(lc) == [r EXCEPT !.life_cycle = lc]
        term == {[r EXCEPT !.life_cycle = "TERMINATED", !.result_state = rs] :
                    rs \in ResultStates}
    IN  IF r.life_cycle = "PENDING"
        THEN {to("RUNNING"), to("SKIPPED"), to("INTERNAL_ERROR")}
        ELSE IF r.life_cycle = "RUNNING"
        THEN {to("TERMINATING"), to("INTERNAL_ERROR")} \cup term
        ELSE IF r.life_cycle = "TERMINATING"
        THEN {to("INTERNAL_ERROR")} \cup term
        ELSE {}

\* the remote system moves the run on
RemoteRunStep ==
    /\ run.exists
    /\ run' \in RunSuccessors(run)
    /\ UNCHANGED <<configured, pc, entry, result, log, job_id, job_name,
                   run_id, attempt, nPoll, polled, seen, remoteJobs>>

----------------------------------------------------------------------------
(* dbfs_put_single, dbfs_upload_chunked, upload_to_dbfs_simple              *)

\* upload_to_dbfs_simple's size test
UseSinglePut_strict(file_size) == file_size < SIMPLE_THRESHOLD
UseSinglePut(file_size) == file_size <= SIMPLE_THRESHOLD

\* dbfs_put_single's size check
TooLargeForPut_strict(content) == SliceLen(content) >= PUT_LIMIT
TooLargeForPut(content) == SliceLen(content) > PUT_LIMIT

\* "if not chunk: break" of the chunk loop; c is chunk_size
LoopBreaks_short(ch, c) == SliceLen(ch) < c
LoopBreaks(ch, c) == SliceLen(ch) = 0

\* does control pass the raise_for_status() after each request
PutOk(r) == PostSucceeded(r)
CreateOk(r) == PostSucceeded(r)
AddBlockOk_noraise(r) == ~r.exc
AddBlockOk(r) == PostSucceeded(r)
CloseOk_noraise(r) == ~r.exc
CloseOk(r) == PostSucceeded(r)

\* the body of dbfs_put_single up to its request
PutSingleStart(f, p, ow) ==
    /\ path' = p
    /\ overwrite' = ow
    /\ UNCHANGED <<chunk_size, handle, chunk_count, total_size>>
    /\ IF ~configured
       THEN /\ file' = f
            /\ chunk' = NoChunk
            /\ Return(ErrCredentials)
       ELSE LET content == ReadAll(f) IN
            /\ file' = AfterRead(f, content)
            /\ IF TooLargeForPut(content)
               THEN chunk' = NoChunk /\ Return(ErrTooLarge)
               ELSE chunk' = content /\ pc' = "put" /\ result' = NoResult

\* the body of dbfs_upload_chunked up to its first request
ChunkedStart(f, p, ow, c) ==
    /\ path' = p
    /\ overwrite' = ow
    /\ chunk_size' = c
    /\ file' = f
    /\ chunk' = NoChunk
    /\ UNCHANGED <<handle, chunk_count, total_size>>
    /\ IF ~configured
       THEN Return(ErrCredentials)
       ELSE pc' = "create" /\ result' = NoResult

\* one turn of "while True: chunk = file_obj.read(chunk_size) ..." from file f
NextChunk(f) ==
    LET ch == ReadN(f, chunk_size) IN
    /\ file' = AfterRead(f, ch)
    /\ result' = NoResult
    /\ IF LoopBreaks(ch, chunk_size)
       THEN chunk' = NoChunk /\ pc' = "close"
       ELSE chunk' = ch /\ pc' = "add"

UploadToDbfsSimple ==
    \E f \in FileObjects :
       /\ pc = "idle"
       /\ entry' = "upload_to_dbfs_simple"
       /\ pos0' = f.pos
       /\ UNCHANGED <<configured, log, store, servesOpen>>
       /\ IF ~configured
          THEN /\ Return(ErrCredentials)
               /\ file' = f
               /\ UNCHANGED <<path, overwrite, chunk_size, chunk, handle,
                              chunk_count, total_size>>
          ELSE IF UseSinglePut(SizeOf(f))
               THEN PutSingleStart(Seek0(f), UploadPath, TRUE)
               ELSE ChunkedStart(Seek0(f), UploadPath, TRUE, DEFAULT_CHUNK_SIZE)

DbfsPutSingle ==
    \E f \in FileObjects, ow \in BOOLEAN :
       /\ pc = "idle"
       /\ entry' = "dbfs_put_single"
       /\ pos0' = f.pos
       /\ UNCHANGED <<configured, log, store, servesOpen>>
       /\ PutSingleStart(f, UploadPath, ow)

DbfsUploadChunked ==
    \E f \in FileObjects, ow \in BOOLEAN, c \in ChunkSizes :
       /\ pc = "idle"
       /\ Ceil(f.size, c) <= MaxBlocks
       /\ entry' = "dbfs_upload_chunked"
       /\ pos0' = f.pos
       /\ UNCHANGED <<configured, log, store, servesOpen>>
       /\ ChunkedStart(f, UploadPath, ow, c)

\* requests.post(dbfs/put) and the return
PutRequest ==
    \E r \in Responses :
       /\ pc = "put"
       /\ Is2xx(r) => RemoteAllowsWrite(path, overwrite)
       /\ log' = Append(log, Request("dbfs/put", B64Encode(chunk), r))
       /\ IF PutOk(r)
          THEN /\ store' = [store EXCEPT ![path] = PutPayload(B64Encode(chunk))]
               /\ Return(PutSuccess)
          ELSE /\ store' = store
               /\ Return(ErrUploadFailed)
       /\ UNCHANGED <<configured, servesOpen, entry, upVars>>

\* requests.post(dbfs/create), then seek(0) and the first read
CreateRequest ==
    \E r \in Responses :
       /\ pc = "create"
       /\ Is2xx(r) => RemoteAllowsWrite(path, overwrite)
       /\ log' = Append(log, Request("dbfs/create", NoPayload, r))
       /\ IF CreateOk(r)
          THEN /\ store' = [store EXCEPT ![path] = OpenFile]
               /\ handle' = [for |-> path]
               /\ chunk_count' = 0
               /\ total_size' = 0
               /\ NextChunk(Seek0(file))
          ELSE /\ Return(ErrChunkedFailed)
               /\ UNCHANGED <<store, handle, chunk_count, total_size, file, chunk>>
       /\ UNCHANGED <<configured, servesOpen, entry, pos0, path, overwrite,
                      chunk_size>>

\* requests.post(dbfs/add-block) of the chunk read, then the next read
AddBlockRequest ==
    \E r \in Responses :
       /\ pc = "add"
       /\ log' = Append(log, Request("dbfs/add-block", B64Encode(chunk), r))
       /\ store' = IF Is2xx(r)
                   THEN [store EXCEPT ![handle.for].blocks =
                                         Append(@, RemoteDecode(B64Encode(chunk)))]
                   ELSE store
       /\ IF AddBlockOk(r)
          THEN /\ chunk_count' = chunk_count + 1
               /\ total_size' = total_size + SliceLen(chunk)
               /\ NextChunk(file)
          ELSE /\ Return(ErrChunkedFailed)
               /\ UNCHANGED <<chunk_count, total_size, file, chunk>>
       /\ UNCHANGED <<configured, servesOpen, entry, pos0, path, overwrite,
                      chunk_size, handle>>

\* requests.post(dbfs/close) and the return
CloseRequest ==
    \E r \in Responses :
       /\ pc = "close"
       /\ log' = Append(log, Request("dbfs/close", NoPayload, r))
       /\ store' = IF Is2xx(r)
                   THEN [store EXCEPT ![handle.for].closed = TRUE]
                   ELSE store
       /\ IF CloseOk(r)
          THEN Return(ChunkedSuccess(chunk_count, total_size))
          ELSE Return(ErrChunkedFailed)
       /\ UNCHANGED <<configured, servesOpen, entry, upVars>>

\* upload_file_to_dbfs of dbx_utils.py: it checks no credentials and catches
\* nothing, so a failure is an exception raised to the caller
Raised(exc) == [status |-> "raised", message |-> Msg(exc, "")]
Returned(id) == [status |-> "returned", run_id |-> id]
PutReturned == [status |-> "returned"]
\* "if resp.status_code != 200" after the first dbfs/put
SecondPut_never(r) == FALSE
SecondPut(r) == r.code # 200

\* open(local_path, "rb") and f.read()
UploadFileToDbfs ==
    \E f \in FileObjects :
       /\ pc = "idle"
       /\ f.pos = 0
       /\ entry' = "upload_file_to_dbfs"
       /\ pos0' = f.pos
       /\ path' = UploadPath
       /\ file' = AfterRead(f, ReadAll(f))
       /\ chunk' = ReadAll(f)
       /\ pc' = "hexput"
       /\ UNCHANGED <<configured, result, log, store, servesOpen, overwrite,
                      chunk_size, handle, chunk_count, total_size>>

\* requests.post(dbfs/put) with contents data.hex()
HexPutRequest ==
    \E r \in Responses :
       LET payload == HexEncode(chunk) IN
       /\ pc = "hexput"
       /\ ~configured => r.exc
       /\ Is2xx(r) => RemoteAllowsWrite(path, FALSE) /\ RemoteDecodes(payload)
       \* without a host the URL has no scheme and nothing is sent
       /\ log' = IF configured
                 THEN Append(log, Request("dbfs/put", payload, r))
                 ELSE log
       /\ store' = IF Is2xx(r)
                   THEN [store EXCEPT ![path] = PutPayload(payload)]
                   ELSE store
       /\ IF r.exc
          THEN Return(Raised("RequestException"))
          ELSE IF SecondPut(r)
          THEN pc' = "b64put" /\ result' = NoResult
          ELSE Return(PutReturned)
       /\ UNCHANGED <<configured, servesOpen, entry, upVars>>

\* requests.post(dbfs/put) with the base64 contents, and raise_for_status()
B64PutRequest ==
    \E r \in Responses :
       LET payload == B64Encode(chunk) IN
       /\ pc = "b64put"
       /\ Is2xx(r) => RemoteAllowsWrite(path, FALSE)
       /\ log' = Append(log, Request("dbfs/put", payload, r))
       /\ store' = IF Is2xx(r)
                   THEN [store EXCEPT ![path] = PutPayload(payload)]
                   ELSE store
       /\ IF r.exc
          THEN Return(Raised("RequestException"))
          ELSE IF RaisesForStatus(r)
          THEN Return(Raised("HTTPError"))
          ELSE Return(PutReturned)
       /\ UNCHANGED <<configured, servesOpen, entry, upVars>>

\* Browser sessions of app.py.  "Initialize session state": every key None,
\* upload_complete False.
Sessions == {"u1", "u2"}
\* an optional value: None, or a value v held as Some(v)
None == <<>>
Some(v) == <<v>>
The(o) == o[1]
FreshState ==
    [session_id |-> None, current_file |-> None, upload_complete |-> FALSE,
     dbfs_path |-> None, analysis_results |-> None, training_results |-> None,
     scoring_results |-> None]
\* A script run of browser session u as one watching the session sees it:
\* the page, the file in the page's uploader, the session state the run
\* started from, the job it ran (if any), the status run_job returned, and
\* whether the job then had an earlier run the remote had not ended.
ScriptRun(u, page, sel, st) ==
    [user |-> u, page |-> page, selected |-> sel, before |-> st,
     job |-> "none", status |-> "none", overlap |-> FALSE]
NoScriptRun == ScriptRun("none", "none", None, FreshState)

InitAppVars ==
    /\ last = NoScriptRun
    /\ active = {}
    /\ stored = {}
    /\ ss = [u \in Sessions |-> FreshState]
    /\ apc = [u \in Sessions |-> "idle"]
    /\ inflight = [u \in Sessions |-> None]
    /\ clock = 0
    /\ uploads = <<>>
    /\ reads = {}
    /\ scored = {}

\* the variables of the prediction loader before a call
InitLoadVars ==
    /\ cand = 0
    /\ base = 0
    /\ files = <<>>
    /\ fidx = 0
    /\ found = <<>>

\* the variables of run_job and run_job_now before a call
InitJobVars ==
    /\ job_id = "none"
    /\ job_name = "none"
    /\ run_id = "none"
    /\ attempt = 0
    /\ nPoll = 0
    /\ polled = {}
    /\ seen = NotSeen
    /\ run = NoRun

\* the variables of the upload functions before a call
InitUpVars ==
    /\ file = [size |-> 0, pos |-> 0]
    /\ pos0 = 0
    /\ path = UploadPath
    /\ overwrite = FALSE
    /\ chunk_size = DEFAULT_CHUNK_SIZE
    /\ chunk = NoChunk
    /\ handle = NoHandle
    /\ chunk_count = 0
    /\ total_size = 0

InitUpload ==
    /\ InitJobVars
    /\ InitLoadVars
    /\ InitAppVars
    /\ remoteJobs = <<>>
    /\ configured \in BOOLEAN
    /\ pc = "idle"
    /\ entry = "none"
    /\ result = NoResult
    /\ log = <<>>
    /\ InitUpVars
    /\ store \in [Paths -> {NoFile, OldFile}]
    /\ servesOpen \in BOOLEAN

NextUpload ==
    \/ UploadToDbfsSimple /\ UNCHANGED <<jobVars, loadVars, appVars>>
    \/ DbfsPutSingle /\ UNCHANGED <<jobVars, loadVars, appVars>>
    \/ DbfsUploadChunked /\ UNCHANGED <<jobVars, loadVars, appVars>>
    \/ PutRequest /\ UNCHANGED <<jobVars, loadVars, appVars>>
    \/ CreateRequest /\ UNCHANGED <<jobVars, loadVars, appVars>>
    \/ AddBlockRequest /\ UNCHANGED <<jobVars, loadVars, appVars>>
    \/ CloseRequest /\ UNCHANGED <<jobVars, loadVars, appVars>>
    \/ UploadFileToDbfs /\ UNCHANGED <<jobVars, loadVars, appVars>>
    \/ HexPutRequest /\ UNCHANGED <<jobVars, loadVars, appVars>>
    \/ B64PutRequest /\ UNCHANGED <<jobVars, loadVars, appVars>>

SpecUpload == InitUpload /\ [][NextUpload]_vars

----------------------------------------------------------------------------
(* run_job                                                                  *)

MAX_ATTEMPTS == 60     \* max_attempts of run_job

TriggerResponses ==
    {[exc |-> TRUE, code |-> 0, json |-> FALSE, run_id |-> "none"]}
      \cup [exc : {FALSE}, code : {400, 500}, json : BOOLEAN, run_id : {"none"}]
      \cup [exc : {FALSE}, code : {200}, json : {TRUE}, run_id : RunIds \cup {"none"}]
      \cup {[exc |-> FALSE, code |-> 200, json |-> FALSE, run_id |-> "none"]}
PollResponses ==
    {[exc |-> TRUE, code |-> 0, json |-> FALSE]}
      \cup [exc : {FALSE}, code : StatusCodes, json : BOOLEAN]

ErrApiError(r) ==
    [status |-> "error", message |-> Msg("API Error", ToString(r.code)),
     details |-> "error_detail"]
ErrApiCallFailed == [status |-> "error", message |-> Msg("API call failed", "")]
ErrUnexpected == [status |-> "error", message |-> Msg("Unexpected error", "")]
\* response.json() of a body that is not JSON raises a JSONDecodeError, which
\* is a RequestException or only a ValueError, by the version of requests
JsonErrors == {ErrApiCallFailed, ErrUnexpected}

JobSuccess(rs, id) ==
    [status |-> "success", result_state |-> rs, run_id |-> id,
     message |-> Msg("Job completed successfully", "")]
JobFailed_asSuccess(rs, id) ==
    [status |-> "success", result_state |-> rs, run_id |-> id,
     message |-> Msg("Job completed successfully", "")]
JobFailed(rs, id) ==
    [status |-> "error", result_state |-> rs, run_id |-> id,
     message |-> Msg("Job failed with state", rs)]
JobEnded(lc, id) ==
    [status |-> "error", message |-> Msg("Job ended with state", lc),
     run_id |-> id]
JobTimedOut_asFailure(id) ==
    [status |-> "error", message |-> Msg("Job failed with state", "None"),
     run_id |-> id]
JobTimedOut(id) ==
    [status |-> "error",
     message |-> Msg("Job timed out after attempts", ToString(MAX_ATTEMPTS)),
     run_id |-> id]

\* "if response.status_code != 200" after the run-now request
TriggerRejected(r) == r.code # 200
\* where run_job stands after a rejected run-now request: it returns
AfterRejectedTrigger_retry == "trigger"
AfterRejectedTrigger_fallthrough == "poll"
AfterRejectedTrigger == "done"
\* "while attempt < max_attempts"
LoopContinues_short(a) == a < MAX_ATTEMPTS - 1
LoopContinues(a) == a < MAX_ATTEMPTS
\* the attempt counter after a status request that was not answered 200
AttemptAfterFailedPoll_same(a) == a
AttemptAfterFailedPoll(a) == a + 1

RunJob ==
    \E j \in JobIds :
       /\ pc = "idle"
       /\ entry' = "run_job"
       /\ job_id' = j
       /\ IF ~configured
          THEN Return(ErrCredentials)
          ELSE pc' = "trigger" /\ result' = NoResult
       /\ UNCHANGED <<configured, log, job_name, run_id, attempt, nPoll, polled,
                      seen, run, remoteJobs>>

\* requests.post(jobs/run-now) and the code up to the polling loop
TriggerRequest ==
    \E r \in TriggerResponses, e \in JsonErrors, id \in RunIds :
       /\ pc = "trigger"
       /\ r.code = 200 => job_id \in KnownJobs
       /\ r.run_id # "none" => id = r.run_id
       /\ log' = Append(log, Request("jobs/run-now", NoPayload, r))
       /\ run' = IF r.code = 200 THEN NewRun(id) ELSE run
       /\ IF r.exc
          THEN Return(ErrApiCallFailed) /\ UNCHANGED <<run_id, attempt>>
          ELSE IF TriggerRejected(r)
          THEN /\ pc' = AfterRejectedTrigger
               /\ result' = IF r.json THEN ErrApiError(r) ELSE e
               /\ UNCHANGED <<run_id, attempt>>
          ELSE IF ~r.json
          THEN Return(e) /\ UNCHANGED <<run_id, attempt>>
          ELSE IF r.run_id = "none"
          THEN Return(ErrUnexpected) /\ UNCHANGED <<run_id, attempt>>
          ELSE /\ run_id' = r.run_id
               /\ attempt' = 0
               /\ IF LoopContinues(0)
                  THEN pc' = "poll" /\ result' = NoResult
                  ELSE Return(JobTimedOut(r.run_id))
       /\ UNCHANGED <<configured, entry, job_id, job_name, nPoll, polled, seen,
                      remoteJobs>>

\* the requests run_job sends about the run once the loop has run out,
\* before it returns the timeout result: none
RequestsOnTimeout_cancel ==
    <<Request("jobs/runs/cancel", NoPayload, [exc |-> FALSE, code |-> 200])>>
RequestsOnTimeout == <<>>

\* the end of one turn of the polling loop, the counter being a
NextTurn(a) ==
    /\ attempt' = a
    /\ IF LoopContinues(a)
       THEN pc' = "poll" /\ result' = NoResult /\ log' = log
       ELSE Return(JobTimedOut(run_id)) /\ log' = log \o RequestsOnTimeout

\* requests.get(jobs/runs/get) and the rest of the turn
PollRequest ==
    \E r \in PollResponses, e \in JsonErrors :
       /\ pc = "poll"
       /\ r.code = 200 => run.exists /\ run.id = run_id
       /\ nPoll' = nPoll + 1
       /\ polled' = polled \cup {run_id}
       /\ IF r.exc
          THEN /\ Return(ErrApiCallFailed)
               /\ seen' = Unanswered(seen, r)
               /\ UNCHANGED <<attempt, log>>
          ELSE IF r.code # 200
          THEN /\ NextTurn(AttemptAfterFailedPoll(attempt))
               /\ seen' = Unanswered(seen, r)
          ELSE IF ~r.json
          THEN /\ Return(e)
               /\ seen' = Unanswered(seen, r)
               /\ UNCHANGED <<attempt, log>>
          ELSE LET life_cycle == run.life_cycle
                   result_state == run.result_state
               IN  /\ seen' = [code |-> r.code, ok |-> TRUE,
                               life_cycle |-> life_cycle,
                               result_state |-> result_state]
                   /\ IF life_cycle = "TERMINATED"
                      THEN /\ IF result_state = "SUCCESS"
                              THEN Return(JobSuccess(result_state, run_id))
                              ELSE Return(JobFailed(result_state, run_id))
                           /\ UNCHANGED <<attempt, log>>
                      ELSE IF life_cycle \in {"INTERNAL_ERROR", "SKIPPED"}
                      THEN /\ Return(JobEnded(life_cycle, run_id))
                           /\ UNCHANGED <<attempt, log>>
                      ELSE NextTurn(attempt + 1)
       /\ UNCHANGED <<configured, entry, job_id, job_name, run_id, run,
                      remoteJobs>>

----------------------------------------------------------------------------
(* run_job_now of dbx_utils.py: it has no try/except, so a failure is an     *)
(* exception raised to the caller                                           *)


\* the indexes of the jobs named name
Matches(jobs, name) == {i \in 1 .. Len(jobs) : jobs[i].name = name}
\* "for j in jobs: if name matches: job_id = j["job_id"]; break"
FindJob_first(jobs, name) ==
    IF jobs = <<>> THEN "none" ELSE jobs[1].job_id
FindJob(jobs, name) ==
    IF Matches(jobs, name) = {}
    THEN "none"
    ELSE jobs[CHOOSE i \in Matches(jobs, name) :
                 \A k \in Matches(jobs, name) : i <= k].job_id

RunJobNow ==
    \E n \in JobNames :
       /\ pc = "idle"
       /\ entry' = "run_job_now"
       /\ job_name' = n
       /\ pc' = "list"
       /\ UNCHANGED <<configured, result, log, job_id, run_id, attempt, nPoll,
                      polled, seen, run, remoteJobs>>

\* requests.get(jobs/list) and the search for the job's id
ListRequest ==
    \E r \in Responses :
       /\ pc = "list"
       /\ Is2xx(r) => configured
       /\ log' = Append(log, Request("jobs/list", NoPayload, r))
       /\ IF r.exc \/ RaisesForStatus(r)
          THEN Return(Raised("HTTPError")) /\ job_id' = job_id
          ELSE LET id == FindJob(remoteJobs, job_name) IN
               /\ job_id' = id
               /\ IF id = "none"
                  THEN Return(Raised("ValueError"))
                  ELSE pc' = "runnow" /\ result' = NoResult
       /\ UNCHANGED <<configured, entry, job_name, run_id, attempt, nPoll,
                      polled, seen, run, remoteJobs>>

\* requests.post(jobs/run-now) of run_job_now and the return
RunNowRequest ==
    \E r \in Responses, id \in RunIds :
       /\ pc = "runnow"
       /\ Is2xx(r) => configured /\ job_id \in KnownJobs
       /\ log' = Append(log, Request("jobs/run-now", NoPayload, r))
       /\ IF r.exc \/ RaisesForStatus(r)
          THEN Return(Raised("HTTPError")) /\ run' = run
          ELSE Return(Returned(id)) /\ run' = NewRun(id)
       /\ UNCHANGED <<configured, entry, job_id, job_name, run_id, attempt,
                      nPoll, polled, seen, remoteJobs>>

InitJob ==
    /\ InitJobVars
    /\ InitLoadVars
    /\ InitAppVars
    /\ remoteJobs \in JobLists
    /\ configured \in BOOLEAN
    /\ pc = "idle"
    /\ entry = "none"
    /\ result = NoResult
    /\ log = <<>>
    /\ InitUpVars
    /\ store = [p \in Paths |-> NoFile]
    /\ servesOpen = FALSE

dbfsVars == <<upVars, store, servesOpen, loadVars, appVars>>

NextJob ==
    \/ RunJob /\ UNCHANGED dbfsVars
    \/ TriggerRequest /\ UNCHANGED dbfsVars
    \/ PollRequest /\ UNCHANGED dbfsVars
    \/ RunJobNow /\ UNCHANGED dbfsVars
    \/ ListRequest /\ UNCHANGED dbfsVars
    \/ RunNowRequest /\ UNCHANGED dbfsVars
    \/ RemoteRunStep /\ UNCHANGED dbfsVars

SpecJob == InitJob /\ [][NextJob]_vars

\* run_job against a remote system that has the ingest job.  Each request is
\* answered or fails, and the function then runs on: weak fairness.
InitPoll == InitJob /\ remoteJobs = <<[name |-> "ingest", job_id |-> "J1"]>>
FairSpecPoll ==
    /\ InitPoll /\ [][NextJob]_vars
    /\ WF_vars(TriggerRequest /\ UNCHANGED dbfsVars)
    /\ WF_vars(PollRequest /\ UNCHANGED dbfsVars)

----------------------------------------------------------------------------
(* dbfs_read_file, dbfs_list_files, and app.py's load_predictions_smart and *)
(* enhanced_debug_prediction_files, for session id "S"                      *)

READ_LENGTH == 1000000     \* "length" of dbfs_read_file's request

ResultsDir == "/FileStore/results/S"
TmpDir == "/FileStore/tmp/S"
MarkerPath == "/FileStore/results/S/_SUCCESS.txt"
\* file_patterns of load_predictions_smart
FILE_PATTERNS_swapped ==
    << "/FileStore/results/S/predictions_sample.csv",
       "/FileStore/results/S/predictions.csv",
       "/FileStore/results/S/predictions_direct.csv",
       "/FileStore/tmp/S/predictions.csv" >>
FILE_PATTERNS ==
    << "/FileStore/results/S/predictions.csv",
       "/FileStore/results/S/predictions_sample.csv",
       "/FileStore/results/S/predictions_direct.csv",
       "/FileStore/tmp/S/predictions.csv" >>
\* base_paths of enhanced_debug_prediction_files
BASE_PATHS == <<ResultsDir, TmpDir>>

CandidatePaths ==
    {"/FileStore/results/S/predictions.csv",
     "/FileStore/results/S/predictions_sample.csv",
     "/FileStore/results/S/predictions_direct.csv",
     "/FileStore/tmp/S/predictions.csv"}
LoadPaths == CandidatePaths \cup {UploadPath, MarkerPath}
\* the paths the remote lists under a directory, in the order it lists them
DirFiles(d) ==
    IF d = ResultsDir
    THEN << MarkerPath, "/FileStore/results/S/predictions.csv",
            "/FileStore/results/S/predictions_direct.csv",
            "/FileStore/results/S/predictions_sample.csv" >>
    ELSE << UploadPath, "/FileStore/tmp/S/predictions.csv" >>
\* file_path.endswith('.csv'), file_path.endswith('.txt')
EndsWithCsv(p) == p # MarkerPath
EndsWithTxt(p) == p = MarkerPath

CsvFile == [exists |-> TRUE, blocks |-> <<Slice(0, 2)>>, closed |-> TRUE,
            kind |-> "csv"]
BadCsvFile == [exists |-> TRUE, blocks |-> <<Slice(0, 2)>>, closed |-> TRUE,
               kind |-> "badcsv"]
EmptyFile == [exists |-> TRUE, blocks |-> <<>>, closed |-> TRUE, kind |-> "csv"]
TextFile == [exists |-> TRUE, blocks |-> <<Slice(0, 2)>>, closed |-> TRUE,
             kind |-> "text"]

RECURSIVE BlocksLen(_)
BlocksLen(bs) == IF bs = <<>> THEN 0 ELSE SliceLen(Head(bs)) + BlocksLen(Tail(bs))
\* the bytes a dbfs/read of p at offset 0 returns: at most READ_LENGTH
ContentOf(p) ==
    [path |-> p, kind |-> store[p].kind,
     len |-> IF Readable(p) THEN Min(BlocksLen(store[p].blocks), READ_LENGTH) ELSE 0]
\* whether the remote lists directory d
DirExists(d) == \E i \in 1 .. Len(DirFiles(d)) : store[DirFiles(d)[i]].exists
Listing(d) == SelectSeq(DirFiles(d), LAMBDA p : store[p].exists)

ReadSuccess(content) == [status |-> "success", content |-> content]
ErrEmptyFile ==
    [status |-> "error", message |-> Msg("File is empty or doesn't exist", "")]
ErrFailedToRead == [status |-> "error", message |-> Msg("Failed to read file", "")]
ErrReadingFile == [status |-> "error", message |-> Msg("Error reading file", "")]
\* what dbfs_read_file(p) returns when its request is answered by r
ReadResult(p, r) ==
    IF r.exc
    THEN ErrReadingFile
    ELSE IF r.code = 200
    THEN IF ContentOf(p).len > 0 THEN ReadSuccess(ContentOf(p)) ELSE ErrEmptyFile
    ELSE ErrFailedToRead
\* pd.read_csv(io.StringIO(content)) returns a frame
ParsesCsv(content) == content.kind = "csv"

ReadRequest(p, res, by) ==
    [ep |-> "dbfs/read", path |-> p, ok |-> res.status = "success", by |-> by]
ListDirRequest(d, ok) ==
    [ep |-> "dbfs/list", path |-> d, ok |-> ok, by |-> "enhanced_debug"]

\* the frame parsed from the file at p; None
Df(p) == [status |-> "df", path |-> p]
NoData == [status |-> "None"]

\* enhanced_debug_prediction_files from file i of the listing fs of base b on
ScanFrom(b, fs, i, fnd) ==
    IF i <= Len(fs)
    THEN /\ pc' = "dread" /\ result' = NoResult
         /\ base' = b /\ files' = fs /\ fidx' = i /\ found' = fnd
    ELSE IF b < Len(BASE_PATHS)
    THEN /\ pc' = "dlist" /\ result' = NoResult
         /\ base' = b + 1 /\ files' = <<>> /\ fidx' = 0 /\ found' = fnd
    ELSE /\ Return(IF fnd # <<>> THEN Df(fnd[1]) ELSE NoData)
         /\ base' = b /\ files' = fs /\ fidx' = i /\ found' = fnd

\* with no credentials every dbfs_read_file and dbfs_list_files returns an
\* error without a request, and the loader returns None
LoadPredictionsSmart ==
    /\ pc = "idle"
    /\ entry' = "load_predictions_smart"
    /\ IF ~configured
       THEN Return(NoData) /\ cand' = cand
       ELSE pc' = "read" /\ result' = NoResult /\ cand' = 1
    /\ UNCHANGED <<configured, log, store, servesOpen, base, files, fidx, found>>

\* one turn of "for file_path in file_patterns": dbfs_read_file and the parse
ReadCandidate ==
    \E r \in Responses :
       LET file_path == FILE_PATTERNS[cand]
           res == ReadResult(file_path, r)
       IN  /\ pc = "read"
           /\ r.code = 200 => store[file_path].exists
           /\ log' = Append(log, ReadRequest(file_path, res, "load_predictions_smart"))
           /\ IF res.status = "success" /\ ParsesCsv(res.content)
              THEN /\ Return(Df(file_path))
                   /\ UNCHANGED <<cand, base, files, fidx, found>>
              ELSE IF cand < Len(FILE_PATTERNS)
              THEN /\ cand' = cand + 1
                   /\ pc' = "read" /\ result' = NoResult
                   /\ UNCHANGED <<base, files, fidx, found>>
              ELSE /\ cand' = cand
                   /\ pc' = "dlist" /\ result' = NoResult
                   /\ base' = 1 /\ files' = <<>> /\ fidx' = 0 /\ found' = <<>>
           /\ UNCHANGED <<configured, entry, store, servesOpen>>

\* dbfs_list_files(base_path) of enhanced_debug_prediction_files
DebugList ==
    \E r \in Responses :
       LET base_path == BASE_PATHS[base] IN
       /\ pc = "dlist"
       /\ r.code = 200 => DirExists(base_path)
       /\ log' = Append(log, ListDirRequest(base_path, r.code = 200))
       /\ IF r.code = 200
          THEN ScanFrom(base, Listing(base_path), 1, found)
          ELSE ScanFrom(base, <<>>, 1, found)
       /\ UNCHANGED <<configured, entry, store, servesOpen, cand>>

\* dbfs_read_file of a listed .csv or .txt file, and the parse of a .csv
DebugRead ==
    \E r \in Responses :
       LET file_path == files[fidx]
           res == ReadResult(file_path, r)
       IN  /\ pc = "dread"
           /\ r.code = 200 => store[file_path].exists
           /\ log' = Append(log, ReadRequest(file_path, res, "enhanced_debug"))
           /\ IF EndsWithCsv(file_path) /\ res.status = "success"
                 /\ ParsesCsv(res.content)
              THEN ScanFrom(base, files, fidx + 1, Append(found, file_path))
              ELSE ScanFrom(base, files, fidx + 1, found)
           /\ UNCHANGED <<configured, entry, store, servesOpen, cand>>

\* dbfs_file_exists returns a bool from its request, and the credentials
\* error (a dict) without one
BoolResult(b) == [status |-> "bool", value |-> b]
\* bool(value) of what a function returned: a non-empty dict is true
Truthy(res) == IF res.status = "bool" THEN res.value ELSE TRUE

DbfsFileExists ==
    /\ pc = "idle"
    /\ entry' = "dbfs_file_exists"
    /\ IF ~configured
       THEN Return(ErrCredentials)
       ELSE pc' = "getstatus" /\ result' = NoResult
    /\ UNCHANGED <<configured, log, store, servesOpen, loadVars>>

\* requests.post(dbfs/get-status) for the path asked about, and the return
GetStatusRequest ==
    \E p \in LoadPaths, r \in Responses :
       /\ pc = "getstatus"
       /\ r.code = 200 => store[p].exists
       /\ log' = Append(log, [ep |-> "dbfs/get-status", path |-> p,
                               ok |-> r.code = 200, by |-> "dbfs_file_exists"])
       /\ Return(IF r.exc THEN BoolResult(FALSE) ELSE BoolResult(r.code = 200))
       /\ UNCHANGED <<configured, entry, store, servesOpen, loadVars>>

InitLoad ==
    /\ InitJobVars
    /\ InitLoadVars
    /\ InitAppVars
    /\ InitUpVars
    /\ remoteJobs = <<>>
    /\ configured \in BOOLEAN
    /\ pc = "idle"
    /\ entry = "none"
    /\ result = NoResult
    /\ log = <<>>
    /\ servesOpen = FALSE
    /\ store \in [LoadPaths -> {NoFile, EmptyFile, CsvFile, BadCsvFile, TextFile}]
    /\ \A p \in CandidatePaths : store[p] # TextFile
    /\ store[UploadPath] \in {NoFile, CsvFile}
    /\ store[MarkerPath] \in {NoFile, TextFile}

otherVars == <<upVars, jobVars, appVars>>

NextLoad ==
    \/ LoadPredictionsSmart /\ UNCHANGED otherVars
    \/ ReadCandidate /\ UNCHANGED otherVars
    \/ DebugList /\ UNCHANGED otherVars
    \/ DebugRead /\ UNCHANGED otherVars
    \/ DbfsFileExists /\ UNCHANGED otherVars
    \/ GetStatusRequest /\ UNCHANGED otherVars

SpecLoad == InitLoad /\ [][NextLoad]_vars

(* Read-back: dbfs_read_file of the upload path, called when no call is    *)
(* running, in particular after upload_to_dbfs_simple has returned.         *)
DbfsReadFile ==
    /\ pc \in {"idle", "done"}
    /\ entry' = "dbfs_read_file"
    /\ log' = <<>>
    /\ IF ~configured
       THEN Return(ErrCredentials)
       ELSE pc' = "fread" /\ result' = NoResult
    /\ UNCHANGED <<configured, store, servesOpen, upVars>>

\* requests.post(dbfs/read) with offset 0 and length READ_LENGTH, and the return
ReadFileRequest ==
    \E r \in Responses :
       LET res == ReadResult(path, r) IN
       /\ pc = "fread"
       /\ r.code = 200 => store[path].exists
       /\ log' = Append(log, ReadRequest(path, res, "dbfs_read_file"))
       /\ Return(res)
       /\ UNCHANGED <<configured, entry, store, servesOpen, upVars>>

NextReadBack ==
    \/ UploadToDbfsSimple /\ UNCHANGED <<jobVars, loadVars, appVars>>
    \/ PutRequest /\ UNCHANGED <<jobVars, loadVars, appVars>>
    \/ CreateRequest /\ UNCHANGED <<jobVars, loadVars, appVars>>
    \/ AddBlockRequest /\ UNCHANGED <<jobVars, loadVars, appVars>>
    \/ CloseRequest /\ UNCHANGED <<jobVars, loadVars, appVars>>
    \/ DbfsReadFile /\ UNCHANGED <<jobVars, loadVars, appVars>>
    \/ ReadFileRequest /\ UNCHANGED <<jobVars, loadVars, appVars>>

SpecReadBack == InitUpload /\ [][NextReadBack]_vars

----------------------------------------------------------------------------
(* app.py: the pages of the application, run by several browser sessions    *)
(* against one remote store.  The script stops at its top when the secrets  *)
(* are missing, so every page runs with credentials.  A call of run_job,    *)
(* get_task_output or load_predictions_smart is one step here, returning    *)
(* any of the results the function can return; an upload is two steps, its  *)
(* start and its return, so that uploads of different sessions overlap.     *)

MaxClock == 1       \* seconds that pass
MaxUploads == 2     \* uploads the application starts
HexDigits == {"a", "b"}     \* values of uuid.uuid4().hex[:8]
\* names of the files a user selects (".csv" left out), as characters
FileNames == {<<"(", "d", ")">>, <<"d", " ">>, <<"d", "_">>}

\* gen_session_id(): the UTC time to the second, "_", eight hex digits
GenSessionId(t, x) == [ts |-> t, hex |-> x, tail |-> ""]
\* st.session_state.session_id + "_scoring"
ScoringSessionId(sid) == [sid EXCEPT !.tail = @ \o "_scoring"]
\* filename.replace(" ", "_").replace("(", "").replace(")", "")
RECURSIVE SafeName(_)
SafeName(n) ==
    IF n = <<>> THEN <<>>
    ELSE IF Head(n) = " " THEN <<"_">> \o SafeName(Tail(n))
    ELSE IF Head(n) \in {"(", ")"} THEN SafeName(Tail(n))
    ELSE <<Head(n)>> \o SafeName(Tail(n))
\* safe_dbfs_path: "/FileStore/tmp/{session_id}/{name}"
SafeDbfsPath(sid, filename) == [dir |-> sid, name |-> SafeName(filename)]

\* The pages read only the status and the run_id of what run_job returns:
\* one result of each shape (success, error with a run_id, error without).
\* The pages keep the run id but never compare run ids.
AppRunIds == {"r1"}
RunJobResults ==
    {JobSuccess("SUCCESS", id) : id \in AppRunIds}
      \cup {JobTimedOut(id) : id \in AppRunIds}
      \cup {ErrApiCallFailed}
\* what a page stores of a successful run_job
StoredResults(res) ==
    [run_id |-> IF "run_id" \in DOMAIN res THEN res.run_id ELSE "None",
     status |-> "success"]
\* 'if result["status"] == "success"' after run_job
JobSucceeded_any(res) == TRUE
JobSucceeded(res) == res.status = "success"

Upload(u, page, sid, f) ==
    [user |-> u, page |-> page, session_id |-> sid, file |-> f,
     path |-> SafeDbfsPath(sid, f)]
\* a retrieval of prediction artifacts, and whether a score job of the
\* session had been seen TERMINATED with SUCCESS when it was made
Retrieval(u, op, sc) == [user |-> u, op |-> op, scored |-> sc]

Tick ==
    /\ clock < MaxClock
    /\ clock' = clock + 1
    /\ UNCHANGED <<ss, apc, inflight, uploads, reads, scored>>

\* Home page with a file selected, up to the call of upload_to_dbfs_simple
HomePage(u, f, x) ==
       LET fresh == ss[u].session_id = None
           session_id == IF fresh THEN GenSessionId(clock, x) ELSE The(ss[u].session_id)
           st1 == IF fresh
                  THEN [ss[u] EXCEPT !.session_id = Some(session_id),
                                     !.current_file = Some(f)]
                  ELSE ss[u]
       IN  /\ apc[u] = "idle"
           /\ Len(uploads) < MaxUploads
           /\ ss' = [ss EXCEPT ![u] = st1]
           /\ IF ~st1.upload_complete
              THEN /\ apc' = [apc EXCEPT ![u] = "home_upload"]
                   /\ inflight' = [inflight EXCEPT ![u] =
                                       Some(Upload(u, "Home", session_id, f))]
                   /\ uploads' = Append(uploads, Upload(u, "Home", session_id, f))
              ELSE UNCHANGED <<apc, inflight, uploads>>
           /\ UNCHANGED <<clock, reads, scored>>

\* upload_to_dbfs_simple returns to the Home page
HomeUploadReturns(u, ok) ==
       /\ apc[u] = "home_upload"
       /\ ss' = IF ok
                THEN [ss EXCEPT ![u].upload_complete = TRUE,
                                ![u].dbfs_path = Some(The(inflight[u]).path)]
                ELSE ss
       /\ apc' = [apc EXCEPT ![u] = "idle"]
       /\ inflight' = [inflight EXCEPT ![u] = None]
       /\ UNCHANGED <<clock, uploads, reads, scored>>

\* "if st.session_state.upload_complete" at the top of the three job pages
UploadDone_skipped(u) == TRUE
UploadDone(u) == ss[u].upload_complete

\* Data Analysis page, button "Run Data Analysis": run_job(INGEST_JOB_ID)
DataAnalysisPage(u, res) ==
       /\ apc[u] = "idle"
       /\ UploadDone(u)
       /\ ss' = IF JobSucceeded(res)
                THEN [ss EXCEPT ![u].analysis_results = Some(StoredResults(res))]
                ELSE ss
       /\ UNCHANGED <<apc, inflight, clock, uploads, reads, scored>>

\* Model Training page, button "Train Model": run_job(TRAIN_JOB_ID)
ModelTrainingPage(u, res) ==
       /\ apc[u] = "idle"
       /\ UploadDone(u)
       /\ ss' = IF JobSucceeded(res)
                THEN [ss EXCEPT ![u].training_results = Some(StoredResults(res))]
                ELSE ss
       /\ UNCHANGED <<apc, inflight, clock, uploads, reads, scored>>

\* get_predictions_from_job_output(run_id), and load_predictions_smart when
\* it returned None (got is whether it returned a frame)
LoadPredictions(u, got, sc) ==
    {Retrieval(u, "get_task_output", sc)}
       \cup (IF got THEN {} ELSE {Retrieval(u, "load_predictions_smart", sc)})
\* Batch Scoring page down to the file uploader: the "Enhanced File Debug"
\* button and "Display previous scoring results if available"
AfterPrevious(u, button, got) ==
    LET debugged == IF button = "debug"
                    THEN reads \cup {Retrieval(u, "enhanced_debug", u \in scored)}
                    ELSE reads
    IN  IF ss[u].scoring_results # None
        THEN debugged \cup LoadPredictions(u, got, u \in scored)
        ELSE debugged
\* "if not st.session_state.training_results" is false: run_job is called
TrainingDone(u) == ss[u].training_results # None
\* "Verify training was completed first", run_job(SCORE_JOB_ID) and the
\* loading of the predictions, rds being the retrievals made so far
RunScoring(u, rds, res, got) ==
    IF TrainingDone(u) /\ JobSucceeded(res)
    THEN /\ ss' = [ss EXCEPT ![u].scoring_results = Some(StoredResults(res))]
         /\ scored' = scored \cup {u}
         /\ reads' = rds \cup LoadPredictions(u, got, TRUE)
    ELSE /\ ss' = ss
         /\ scored' = scored
         /\ reads' = rds

\* Batch Scoring page, with one of its buttons pressed or none, up to the
\* upload of the scoring file if "Run Batch Scoring" has one to upload
BatchScoringPage(u, button, scoring_file, res, got2) ==
       /\ apc[u] = "idle"
       /\ UploadDone(u)
       /\ button # "run" => scoring_file = None
       /\ \E got \in IF ss[u].scoring_results # None THEN BOOLEAN ELSE {FALSE} :
             LET rds == AfterPrevious(u, button, got)
                 scoring_session_id == ScoringSessionId(The(ss[u].session_id))
             IN  IF button = "run" /\ scoring_file # None
                 THEN /\ Len(uploads) < MaxUploads
                      /\ apc' = [apc EXCEPT ![u] = "score_upload"]
                      /\ inflight' = [inflight EXCEPT ![u] =
                            Some(Upload(u, "Batch Scoring", scoring_session_id,
                                        The(scoring_file)))]
                      /\ uploads' = Append(uploads,
                            Upload(u, "Batch Scoring", scoring_session_id,
                                   The(scoring_file)))
                      /\ reads' = rds
                      /\ UNCHANGED <<ss, scored>>
                 ELSE IF button = "run"
                 THEN /\ RunScoring(u, rds, res, got2)
                      /\ UNCHANGED <<apc, inflight, uploads>>
                 ELSE /\ reads' = rds
                      /\ UNCHANGED <<ss, scored, apc, inflight, uploads>>
       /\ clock' = clock

\* upload_to_dbfs_simple returns to the Batch Scoring page, which goes on
\* with the training check and run_job whatever the upload returned
ScoreUploadReturns(u, res, got) ==
       /\ apc[u] = "score_upload"
       /\ apc' = [apc EXCEPT ![u] = "idle"]
       /\ inflight' = [inflight EXCEPT ![u] = None]
       /\ RunScoring(u, reads, res, got)
       /\ UNCHANGED <<clock, uploads>>

InitApp ==
    /\ InitJobVars
    /\ InitLoadVars
    /\ InitUpVars
    /\ InitAppVars
    /\ remoteJobs = <<>>
    /\ configured = TRUE
    /\ pc = "idle"
    /\ entry = "none"
    /\ result = NoResult
    /\ log = <<>>
    /\ store = [p \in Paths |-> NoFile]
    /\ servesOpen = FALSE

callVars == <<configured, pc, entry, result, log, upVars, store, servesOpen,
              jobVars, loadVars>>

\* what the user does on the Batch Scoring page: the button pressed and the
\* file in the uploader, a file mattering only to "Run Batch Scoring"
Buttons == {"none", "debug", "run"}
ScoringFiles == {Some(f) : f \in FileNames} \cup {None}
\* the results run_job can return to the page: a press of "Run Batch Scoring"
\* without a file calls it (or skips it) in this step, no other press does
ResultsNow(button, scoring_file) ==
    IF button = "run" /\ scoring_file = None THEN RunJobResults ELSE {ErrApiCallFailed}
GotNow(button, scoring_file) ==
    IF button = "run" /\ scoring_file = None THEN BOOLEAN ELSE {FALSE}

NextApp ==
    \/ Tick /\ UNCHANGED <<callVars, obsVars>>
    \/ \E u \in Sessions, f \in FileNames, x \in HexDigits :
          HomePage(u, f, x) /\ UNCHANGED <<callVars, obsVars>>
    \/ \E u \in Sessions, ok \in BOOLEAN :
          HomeUploadReturns(u, ok) /\ UNCHANGED <<callVars, obsVars>>
    \/ \E u \in Sessions, res \in RunJobResults :
          DataAnalysisPage(u, res) /\ UNCHANGED <<callVars, obsVars>>
    \/ \E u \in Sessions, res \in RunJobResults :
          ModelTrainingPage(u, res) /\ UNCHANGED <<callVars, obsVars>>
    \/ \E u \in Sessions, button \in Buttons, scoring_file \in ScoringFiles :
          \E res \in ResultsNow(button, scoring_file),
             got2 \in GotNow(button, scoring_file) :
             BatchScoringPage(u, button, scoring_file, res, got2)
                /\ UNCHANGED <<callVars, obsVars>>
    \/ \E u \in Sessions, res \in RunJobResults, got \in BOOLEAN :
          ScoreUploadReturns(u, res, got) /\ UNCHANGED <<callVars, obsVars>>

SpecApp == InitApp /\ [][NextApp]_vars

(* One browser session, watched: what each of its script runs did is kept   *)
(* in last, the paths its uploads stored in stored, and the jobs whose run  *)
(* the remote has not ended in active.  run_job returns while the run goes  *)
(* on when it times out or its status request fails, and never cancels it.  *)
Watched == "u1"

\* script run l called run_job(job), which returned res
RanJob(l, job, res) ==
    [l EXCEPT !.job = job, !.status = res.status,
              !.overlap = job \in active /\ "run_id" \in DOMAIN res]
\* whether the run can still be going on at the remote when run_job returns
MayStillRun(res) == IF res.status = "error" THEN BOOLEAN ELSE {FALSE}
WatchJob(l, job, res, running) ==
    /\ last' = RanJob(l, job, res)
    /\ active' = IF running THEN active \cup {job} ELSE active
    /\ stored' = stored

\* the hex digits uuid4 gives the watched session: a lone session's pages
\* compare its id with nothing, so one value stands for all
WatchedHex == "a"

WatchHomePage ==
    \E f \in FileNames :
       /\ HomePage(Watched, f, WatchedHex)
       /\ last' = ScriptRun(Watched, "Home", Some(f), ss[Watched])
       /\ UNCHANGED <<active, stored>>

WatchHomeUploadReturns ==
    \E ok \in BOOLEAN :
       /\ HomeUploadReturns(Watched, ok)
       /\ stored' = IF ok THEN stored \cup {The(inflight[Watched]).path} ELSE stored
       /\ UNCHANGED <<last, active>>

WatchDataAnalysisPage ==
    \E res \in RunJobResults : \E running \in MayStillRun(res) :
       /\ DataAnalysisPage(Watched, res)
       /\ WatchJob(ScriptRun(Watched, "Data Analysis", None, ss[Watched]),
                   "ingest", res, running)

WatchModelTrainingPage ==
    \E res \in RunJobResults : \E running \in MayStillRun(res) :
       /\ ModelTrainingPage(Watched, res)
       /\ WatchJob(ScriptRun(Watched, "Model Training", None, ss[Watched]),
                   "train", res, running)

WatchBatchScoringPage ==
    \E button \in Buttons, scoring_file \in ScoringFiles :
       \E res \in ResultsNow(button, scoring_file),
          got2 \in GotNow(button, scoring_file) :
          \E running \in MayStillRun(res) :
             LET l == ScriptRun(Watched, "Batch Scoring", scoring_file, ss[Watched])
                 job == button = "run" /\ scoring_file = None /\ TrainingDone(Watched)
             IN  /\ running => job
                 /\ BatchScoringPage(Watched, button, scoring_file, res, got2)
                 /\ IF job
                    THEN WatchJob(l, "score", res, running)
                    ELSE last' = l /\ UNCHANGED <<active, stored>>

WatchScoreUploadReturns ==
    \E res \in RunJobResults, got \in BOOLEAN : \E running \in MayStillRun(res) :
       /\ running => TrainingDone(Watched)
       /\ ScoreUploadReturns(Watched, res, got)
       /\ IF TrainingDone(Watched)
          THEN WatchJob(last, "score", res, running)
          ELSE UNCHANGED obsVars

\* the remote ends the runs of a job
RemoteEndsRuns ==
    \E j \in active :
       /\ active' = active \ {j}
       /\ UNCHANGED <<ss, apc, inflight, clock, uploads, reads, scored, last, stored>>

\* (the session's pages do not read the clock once the session id is made,
\* so the session is followed within one second)
NextSession ==
    \/ WatchHomePage /\ UNCHANGED callVars
    \/ WatchHomeUploadReturns /\ UNCHANGED callVars
    \/ WatchDataAnalysisPage /\ UNCHANGED callVars
    \/ WatchModelTrainingPage /\ UNCHANGED callVars
    \/ WatchBatchScoringPage /\ UNCHANGED callVars
    \/ WatchScoreUploadReturns /\ UNCHANGED callVars
    \/ RemoteEndsRuns /\ UNCHANGED callVars

SpecSession == InitApp /\ [][NextSession]_vars

----------------------------------------------------------------------------
(* Claims about the upload functions                                       *)

Done == pc = "done"
AllOk == \A i \in 1 .. Len(log) : Is2xx(log[i].resp)
Eps == [i \in 1 .. Len(log) |-> log[i].ep]
ChunkedEps == {"dbfs/create", "dbfs/add-block", "dbfs/close"}
UsedChunked == Len(log) > 0 /\ log[1].ep = "dbfs/create"
ViaSimple == Done /\ entry = "upload_to_dbfs_simple" /\ configured
OnePutOnly == Count("dbfs/put") = 1 /\ Len(log) = 1
ChunkedOnly ==
    /\ Count("dbfs/put") = 0
    /\ UsedChunked
    /\ \A i \in 1 .. Len(log) : log[i].ep \in ChunkedEps

\* C1 as stated: with credentials configured, a payload smaller than the
\* threshold is sent by exactly one dbfs/put and nothing else, and a payload
\* at or above the threshold (10MB itself included) by the chunked protocol
\* and no dbfs/put.
C1_AsStated ==
    ViaSimple =>
       IF file.size < SIMPLE_THRESHOLD THEN OnePutOnly ELSE ChunkedOnly

\* C1 amended: with credentials configured, a payload of at most the threshold
\* (10MB itself included) is sent by exactly one dbfs/put and nothing else,
\* and a payload larger than the threshold by the chunked protocol and no
\* dbfs/put.
C1_StrategyBySize ==
    ViaSimple =>
       IF file.size <= SIMPLE_THRESHOLD THEN OnePutOnly ELSE ChunkedOnly

C1_Witness ==
    /\ ViaSimple
    /\ file.size = SIMPLE_THRESHOLD
    /\ OnePutOnly

\* C2: a chunked upload of n > 0 bytes with chunk size c in which every call
\* succeeded sent one create, then ceil(n / c) add-blocks, then one close.
C2_CallSequence ==
    (Done /\ UsedChunked /\ AllOk /\ file.size > 0) =>
       LET k == Ceil(file.size, chunk_size) IN
       /\ Len(log) = k + 2
       /\ log[1].ep = "dbfs/create"
       /\ \A i \in 2 .. k + 1 : log[i].ep = "dbfs/add-block"
       /\ log[k + 2].ep = "dbfs/close"

C2_Witness ==
    /\ Done /\ UsedChunked /\ AllOk
    /\ file.size = 12 * MB
    /\ chunk_size = 2 * MB
    /\ Count("dbfs/add-block") = 6
    /\ log[Len(log)].ep = "dbfs/close"

\* C3: status "success" is returned only when the committing call (close of
\* a chunked upload, put of a single upload) was sent last and answered 2xx,
\* and every call before it was answered 2xx.
C3_SuccessAfterCommit ==
    (result.status = "success") =>
       /\ Done
       /\ Len(log) > 0
       /\ AllOk
       /\ IF UsedChunked
          THEN log[Len(log)].ep = "dbfs/close"
          ELSE log[Len(log)].ep = "dbfs/put" /\ Len(log) = 1

C3_Witness ==
    /\ result.status = "success"
    /\ UsedChunked
    /\ Count("dbfs/add-block") >= 2
    /\ Is2xx(log[Len(log)].resp)

\* C4: in a chunked upload a call that is not answered 2xx is the last request
\* of the call, and the function has returned status "error".
C4_FailureAborts ==
    UsedChunked =>
       \A i \in 1 .. Len(log) :
          ~Is2xx(log[i].resp) =>
             /\ i = Len(log)
             /\ Done
             /\ result.status = "error"

C4_Witness ==
    /\ Done /\ UsedChunked
    /\ Len(log) = 5
    /\ log[5].ep = "dbfs/add-block"
    /\ log[5].resp.code = 500
    /\ file.size > 4 * chunk_size
    /\ result.status = "error"

\* C5 as stated: after a chunked upload in which an add-block failed, the
\* destination path holds no readable file.
C5_AllOrNothing ==
    (Done /\ UsedChunked
       /\ \E i \in Sent("dbfs/add-block") : ~Is2xx(log[i].resp))
    => ~Readable(path)

----------------------------------------------------------------------------
(* Claims about run_job and run_job_now                                     *)

InRunJob == entry = "run_job"
Triggers == Count("jobs/run-now")

\* C6: run_job sends at most max_attempts status requests: while it polls,
\* the requests sent are as many as the attempts counted and fewer than
\* max_attempts; a status request either ends the call or adds exactly one to
\* the attempt counter; and a call of run_job returns.
C6_PollBound ==
    InRunJob =>
       /\ nPoll <= MAX_ATTEMPTS
       /\ pc = "poll" => nPoll = attempt /\ attempt < MAX_ATTEMPTS
C6_TurnCounts ==
    (pc = "poll" /\ nPoll' = nPoll + 1) =>
       \/ pc' = "done" /\ attempt' = attempt
       \/ attempt' = attempt + 1
C6_PollingTerminates ==
    /\ []C6_PollBound
    /\ [][C6_TurnCounts]_vars
    /\ InRunJob ~> Done

C6_Witness ==
    /\ InRunJob /\ Done
    /\ nPoll = MAX_ATTEMPTS
    /\ attempt = MAX_ATTEMPTS

\* what the status requests of the call showed
Outcome ==
    IF seen.life_cycle = "TERMINATED" /\ seen.result_state = "SUCCESS"
    THEN "SUCCESS"
    ELSE IF seen.life_cycle \in TerminalStates
    THEN "TERMINAL_FAILURE"
    ELSE IF run_id # "none" /\ attempt >= MAX_ATTEMPTS
    THEN "TIMEOUT"
    ELSE "ERROR"
\* what a caller reads from the result's status and message
Reported(res) ==
    IF res.status = "success"
    THEN "SUCCESS"
    ELSE IF res.message.text \in {"Job failed with state", "Job ended with state"}
    THEN "TERMINAL_FAILURE"
    ELSE IF res.message.text = "Job timed out after attempts"
    THEN "TIMEOUT"
    ELSE "ERROR"

\* C7: the result of run_job tells success, terminal failure and timeout
\* apart: what the caller reads from it is what the status requests showed.
C7_OutcomesDistinct ==
    (InRunJob /\ Done) => Reported(result) = Outcome

C7_Witness ==
    /\ InRunJob /\ Done
    /\ Outcome = "TIMEOUT"
    /\ Reported(result) = "TIMEOUT"
    /\ seen.life_cycle = "RUNNING"

\* C8: a run_job whose run-now request was rejected (as it is for an unknown
\* job id) returns status "error" without a run_id and sends no status
\* request; a run_job_now whose name matches no listed job sends no run-now
\* request and fails.
C8_NoRunIdOnFailure ==
    /\ (InRunJob /\ Len(log) > 0 /\ (log[1].resp.code # 200 \/ job_id \notin KnownJobs))
         => /\ nPoll = 0
            /\ run_id = "none"
            /\ ~run.exists
            /\ Done
            /\ result.status = "error"
            /\ "run_id" \notin DOMAIN result
    /\ (entry = "run_job_now" /\ Matches(remoteJobs, job_name) = {})
         => /\ Triggers = 0
            /\ ~run.exists
            /\ Done => result.status = "raised"

C8_Witness ==
    /\ InRunJob /\ Done
    /\ job_id \notin KnownJobs
    /\ remoteJobs # <<>>
    /\ Len(log) = 1
    /\ log[1].resp.code = 400
    /\ result.message.text = "API Error"

\* C9: a run_job call with credentials configured sends the run-now request
\* once: never twice, and once it polls or has returned, exactly once.
C9_OneTrigger ==
    InRunJob =>
       /\ Triggers <= 1
       /\ (configured /\ pc \in {"poll", "done"}) => Triggers = 1

C9_Witness ==
    /\ InRunJob /\ Done
    /\ Triggers = 1
    /\ nPoll = MAX_ATTEMPTS

----------------------------------------------------------------------------
(* Claims about the prediction loader *)

C10_Order ==
    << "/FileStore/results/S/predictions.csv",
       "/FileStore/results/S/predictions_sample.csv",
       "/FileStore/results/S/predictions_direct.csv",
       "/FileStore/tmp/S/predictions.csv" >>
ByLoader(e) == e.ep = "dbfs/read" /\ e.by = "load_predictions_smart"
CandidateReads == SelectSeq(log, ByLoader)
\* the read of log entry i succeeded and its content parses
Hit(i) == log[i].ok /\ store[log[i].path].kind = "csv"

\* C10: load_predictions_smart reads its candidates in the fixed order
\* results/predictions.csv, results/predictions_sample.csv,
\* results/predictions_direct.csv, tmp/predictions.csv, before any other
\* request; a candidate that reads and parses is the last request made and
\* its data is what is returned; a candidate that fails to read, or reads
\* but does not parse, is followed by the next candidate (after the fourth,
\* by the directory search), so it never ends the search.
C10_FirstParseableWins ==
    entry = "load_predictions_smart" =>
       /\ Len(CandidateReads) <= Len(C10_Order)
       /\ \A i \in 1 .. Len(CandidateReads) :
             /\ ByLoader(log[i])
             /\ log[i].path = C10_Order[i]
       /\ \A i \in 1 .. Len(CandidateReads) :
             IF Hit(i)
             THEN /\ i = Len(log)
                  /\ pc = "done"
                  /\ result = Df(C10_Order[i])
             ELSE IF i < Len(C10_Order)
             THEN IF i = Len(log)
                  THEN pc = "read" /\ cand = i + 1
                  ELSE ByLoader(log[i + 1])
             ELSE IF i = Len(log)
                  THEN pc = "dlist"
                  ELSE log[i + 1].ep = "dbfs/list"

\* the first candidate reads but does not parse, the second cannot be read,
\* the third is returned and the fourth, though present, is never read
C10_Witness ==
    /\ entry = "load_predictions_smart"
    /\ pc = "done"
    /\ Len(log) = 3
    /\ log[1].ok /\ store[C10_Order[1]] = BadCsvFile
    /\ ~log[2].ok
    /\ result = Df(C10_Order[3])
    /\ store[C10_Order[4]] = CsvFile

\* some candidate prediction path holds a file that reads and parses
SomeCandidateParses == \E p \in CandidatePaths : store[p] = CsvFile

\* C11: when load_predictions_smart has returned, it returned no data unless
\* some candidate prediction path exists and parses, and data it returned
\* was read from one of the candidate prediction paths, never from another
\* file such as the uploaded input stored under /FileStore/tmp/S/.
C11_OnlyCandidateData ==
    (entry = "load_predictions_smart" /\ pc = "done") =>
       /\ ~SomeCandidateParses => result = NoData
       /\ result # NoData => result.path \in CandidatePaths

----------------------------------------------------------------------------
(* Further claims about run_job and run_job_now *)

\* a status code outside 2xx
Refused(code) == code >= 300
\* the last status request delivered a state, and the state it delivered
Observed(lc) == seen.ok /\ seen.life_cycle = lc

\* C12: no request is retried: a run-now or list request answered outside
\* 2xx is the last request of its call, which has ended with an error, and a
\* status request of run_job answered outside 2xx has ended the call with
\* status "error", so that no further status request follows it.
C12_NoRetry ==
    /\ \A i \in 1 .. Len(log) :
          (log[i].ep \in {"jobs/run-now", "jobs/list"} /\ Refused(log[i].resp.code))
             => /\ i = Len(log)
                /\ Done
                /\ result.status \in {"error", "raised"}
    /\ (InRunJob /\ nPoll > 0 /\ Refused(seen.code))
          => Done /\ result.status = "error"

\* C16: run_job returns status "success" exactly when a status request
\* showed TERMINATED with result_state SUCCESS; a status request showing
\* TERMINATED with another or no result_state, or SKIPPED or INTERNAL_ERROR,
\* is the last one of the call, which returns status "error" there.
C16_SuccessIffTerminatedSuccess ==
    InRunJob =>
       /\ result.status = "success"
             <=> (Observed("TERMINATED") /\ seen.result_state = "SUCCESS")
       /\ seen.life_cycle \in TerminalStates
             => /\ seen.ok
                /\ Done
                /\ (seen.life_cycle # "TERMINATED" \/ seen.result_state # "SUCCESS")
                      => result.status = "error"

\* a run seen TERMINATED without a result_state
C16_Witness ==
    /\ InRunJob /\ Done
    /\ Observed("TERMINATED")
    /\ seen.result_state = "None"
    /\ nPoll > 1
    /\ result.status = "error"

\* a run was triggered: the run-now response gave run_job a run_id
Triggered == InRunJob /\ run_id # "none"
NonTerminalStates == {"PENDING", "RUNNING", "TERMINATING"}
\* the last status request raised, or was answered 200 with a body that
\* could not be read, and run_job returned the error of its except clause
PollBroke ==
    /\ nPoll > 0
    /\ ~seen.ok
    /\ seen.code \in {0, 200}
    /\ result \in JsonErrors \cup {ErrApiCallFailed}
\* a status request showing a non-terminal state does not end the loop, and
\* no status request follows one that showed a terminal state
C17_LoopRule ==
    /\ (seen.ok /\ seen.life_cycle \in NonTerminalStates)
          => (pc = "poll" \/ attempt >= MAX_ATTEMPTS)
    /\ seen.life_cycle \in TerminalStates => (seen.ok /\ Done)

\* C17 as stated: once a run is triggered, run_job stops polling only when
\* a status request showed a terminal state or the attempt bound is
\* exhausted; a status request showing PENDING, RUNNING or TERMINATING never
\* ends the loop, and no status request follows a terminal state.
C17_AsStated ==
    Triggered =>
       /\ Done => \/ seen.ok /\ seen.life_cycle \in TerminalStates
                  \/ attempt >= MAX_ATTEMPTS
       /\ C17_LoopRule

\* C17 amended: once a run is triggered, run_job stops polling only when a
\* status request showed a terminal state, when the attempt bound is
\* exhausted, or when a status request raised or its answer could not be
\* read (run_job then returns status "error"); a status request showing
\* PENDING, RUNNING or TERMINATING never ends the loop, and no status request
\* follows a terminal state.
C17_PollsUntilTerminal ==
    Triggered =>
       /\ Done => \/ seen.ok /\ seen.life_cycle \in TerminalStates
                  \/ attempt >= MAX_ATTEMPTS
                  \/ PollBroke /\ result.status = "error"
       /\ C17_LoopRule

\* a status request raised after an earlier one had shown RUNNING
C17_Witness ==
    /\ Triggered /\ Done
    /\ PollBroke
    /\ seen.code = 0
    /\ seen.life_cycle = "RUNNING"
    /\ attempt > 0 /\ attempt < MAX_ATTEMPTS

\* the only request of run_job in the log is its run-now request: every
\* other request it sends is a status read
OnlyStatusReads ==
    InRunJob => (Len(log) <= 1 /\ \A i \in 1 .. Len(log) : log[i].ep = "jobs/run-now")
\* an existing run changes only by a step of the remote system, in which
\* the client does nothing
RunMovesAlone ==
    (InRunJob /\ run.exists /\ run' # run)
       => /\ run' \in RunSuccessors(run)
          /\ UNCHANGED <<pc, result, log, nPoll, attempt, seen>>

\* C18: run_job never cancels or modifies a triggered run: after the run-now
\* request it sends only status reads, no step of run_job changes the run,
\* and the return of the timeout result leaves the run as the remote has it.
C18_NeverModifiesRun == []OnlyStatusReads /\ [][RunMovesAlone]_vars

\* run_job has returned the timeout result and the run is still RUNNING
C18_Witness ==
    /\ InRunJob /\ Done
    /\ result = JobTimedOut(run_id)
    /\ run.exists /\ run.id = run_id
    /\ run.life_cycle = "RUNNING"
    /\ Len(log) = 1

\* C20: every status request of a run_job call asks for the run_id its
\* run-now response returned, and every result run_job returns once a run
\* was triggered carries that run_id.
C20_RunIdIsHandle ==
    Triggered =>
       /\ polled \subseteq {run_id}
       /\ Done => ("run_id" \in DOMAIN result /\ result.run_id = run_id)

----------------------------------------------------------------------------
(* Further claims about the upload functions *)

WriteEps == {"dbfs/put", "dbfs/add-block"}

\* C13: every request sent to a write endpoint (dbfs/put, dbfs/add-block)
\* carries its payload base64-encoded (an empty payload reads the same in
\* every encoding and is left aside).
C13_Base64Only ==
    \A i \in 1 .. Len(log) :
       (log[i].ep \in WriteEps /\ log[i].data.chars > 0)
          => log[i].data.enc = "base64"

----------------------------------------------------------------------------
(* Claims about the pages of app.py *)

\* C14: no two uploads the application starts (Home page or Batch Scoring
\* page) are made under the same session_id.  Stated for the uploads of one
\* browser session, where no coincidence of generated ids is involved.
C14_UniquePerUpload ==
    \A i, j \in 1 .. Len(uploads) :
       (i # j /\ uploads[i].user = uploads[j].user)
          => uploads[i].session_id # uploads[j].session_id

\* the uploads in progress
InFlight == {u \in Sessions : inflight[u] # None}

\* C15: two uploads of different browser sessions that are in progress at
\* the same time write different remote paths.
C15_ConcurrentPathsDiffer ==
    \A u, v \in InFlight :
       u # v => The(inflight[u]).path # The(inflight[v]).path

\* C19: every retrieval of prediction artifacts (get_task_output,
\* load_predictions_smart, enhanced_debug_prediction_files on the session's
\* result paths) was made after a score job of its session had been seen
\* TERMINATED with result SUCCESS.
C19_ReadsAfterSuccess ==
    \A r \in reads : r.scored

----------------------------------------------------------------------------
(* The split of dbfs_upload_chunked *)

IsAddBlock(e) == e.ep = "dbfs/add-block"
\* the add-block requests of the call in the order sent, and the bytes the
\* remote decodes from the i-th
AddBlocks == SelectSeq(log, IsAddBlock)
Decoded(i) == RemoteDecode(AddBlocks[i].data)
\* the chunk loop has ended: the close request is next or was sent
LoopEnded == pc = "close" \/ Count("dbfs/close") > 0

\* C21: the add-block payloads of dbfs_upload_chunked, decoded and taken in
\* the order sent, are consecutive runs of the file's bytes starting at
\* offset 0: the i-th starts where the one before ended, each has between 1
\* and chunk_size bytes, every one but the last sent has exactly chunk_size
\* bytes, and once the chunk loop has ended they end at the file's last
\* byte, so that together they are the whole payload; this whatever the read
\* position of the file object was when the function was called.
C21_DeterministicSplit ==
    UsedChunked =>
       LET k == Len(AddBlocks) IN
       /\ \A i \in 1 .. k :
             /\ AddBlocks[i].data.enc = "base64"
             /\ Decoded(i).from = (i - 1) * chunk_size
             /\ SliceLen(Decoded(i)) >= 1
             /\ SliceLen(Decoded(i)) <= chunk_size
             /\ Decoded(i).to <= file.size
             /\ i < k => SliceLen(Decoded(i)) = chunk_size
       /\ LoopEnded =>
             IF file.size = 0 THEN k = 0 ELSE k > 0 /\ Decoded(k).to = file.size

\* a file object left at its end is sent whole, in two chunks of which the
\* last is shorter
C21_Witness ==
    /\ entry = "dbfs_upload_chunked"
    /\ Done /\ AllOk
    /\ pos0 = file.size
    /\ file.size = 3 /\ chunk_size = 2
    /\ Len(AddBlocks) = 2
    /\ Decoded(1) = Slice(0, 2)
    /\ Decoded(2) = Slice(2, 3)

----------------------------------------------------------------------------
(* Claims about one browser session of app.py *)

\* the session state of the watched session
Now == ss[Watched]

\* C22: a script run that called run_job (for the ingest, train or score
\* job) started with upload_complete true; and whenever upload_complete is
\* true, session_id and dbfs_path are set and dbfs_path is the path of an
\* upload of the session that returned success.
C22_JobsAfterUpload ==
    /\ last.job # "none" => last.before.upload_complete
    /\ Now.upload_complete =>
          /\ Now.session_id # None
          /\ Now.dbfs_path # None
          /\ The(Now.dbfs_path) \in stored

\* a first upload failed, a second one succeeded, and the session went on to
\* a successful score job
C22_Witness ==
    /\ last.job = "score" /\ last.status = "success"
    /\ last.before.upload_complete
    /\ Len(uploads) = 2
    /\ uploads[1].path # uploads[2].path
    /\ stored = {uploads[2].path}
    /\ Now.dbfs_path = Some(uploads[2].path)

\* C23: as long as no train job has returned success in the session
\* (training_results is unset), the Batch Scoring page has sent nothing to
\* the remote system: it has run no score job and has started no upload of a
\* scoring file.
C23_NothingSentUntrained ==
    Now.training_results = None =>
       /\ last.job # "score"
       /\ \A i \in 1 .. Len(uploads) :
             uploads[i].user = Watched => uploads[i].page # "Batch Scoring"

----------------------------------------------------------------------------
(* Claims about the operations without credentials *)

ApiOperations ==
    {"dbfs_put_single", "dbfs_upload_chunked", "upload_to_dbfs_simple", "run_job",
     "dbfs_file_exists"}
\* what the caller of the operation reads as a failure: a false value from
\* the existence check, status "error" from every other operation
ReportsFailure(op, res) ==
    IF op = "dbfs_file_exists" THEN ~Truthy(res) ELSE res.status = "error"

\* C25: an operation of databricks_api.py called without credentials has
\* sent no request and has reported failure to its caller: status "error",
\* and a false value from the existence check dbfs_file_exists.
C25_FailsWithoutCredentials ==
    (~configured /\ entry \in ApiOperations) =>
       /\ Done
       /\ Len(log) = 0
       /\ ReportsFailure(entry, result)

\* C26: two uploads made under the same session id with different file
\* names write different remote paths.
C26_PathsDifferByName ==
    \A i, j \in 1 .. Len(uploads) :
       (uploads[i].session_id = uploads[j].session_id
          /\ uploads[i].file # uploads[j].file)
          => uploads[i].path # uploads[j].path

----------------------------------------------------------------------------
(* Claims about reading back *)

\* C27: when dbfs_read_file has returned status "success" for a path, the
\* content it returned is the whole content of the remote file at that
\* path, as many bytes as the file's blocks hold; so after an upload that
\* stored the file object's bytes there, as many as the file object has.
C27_ReadBackFaithful ==
    (entry = "dbfs_read_file" /\ Done /\ result.status = "success") =>
       result.content.len = BlocksLen(store[path].blocks)

\* C28: no script run of the session triggered a run of a job while an
\* earlier run of that job, triggered by the session, had not been ended by
\* the remote system.
C28_OneActiveRunPerJob == ~last.overlap

\* C29: when the session's last script run was of the Home page with a file
\* selected and upload_complete is true, current_file is the selected file's
\* name and dbfs_path is safe_dbfs_path(session_id, that name).
C29_SelectedFileIsCurrent ==
    (last.page = "Home" /\ last.selected # None /\ Now.upload_complete) =>
       /\ Now.current_file = last.selected
       /\ Now.dbfs_path =
             Some(SafeDbfsPath(The(Now.session_id), The(last.selected)))

----------------------------------------------------------------------------
(* Claims about the two size tests *)

\* C30: a call of upload_to_dbfs_simple never returns "File too large for
\* single upload": what it hands to dbfs_put_single is the whole payload and
\* passes that function's size check, and every call made with credentials
\* has sent the payload's first request, a dbfs/put or a dbfs/create, by
\* the time it returns.
C30_SizeTestsAgree ==
    entry = "upload_to_dbfs_simple" =>
       /\ result # ErrTooLarge
       /\ pc = "put" => (chunk = Slice(0, file.size) /\ ~TooLargeForPut(chunk))
       /\ (Done /\ configured) =>
             /\ Len(log) >= 1
             /\ log[1].ep = IF UseSinglePut(file.size) THEN "dbfs/put" ELSE "dbfs/create"

\* a payload of exactly the limit, from a file object left at its end, is
\* put whole and accepted
C30_Witness ==
    /\ entry = "upload_to_dbfs_simple" /\ Done
    /\ pos0 = file.size
    /\ file.size = PUT_LIMIT
    /\ result = PutSuccess
    /\ log[1].data.bytes = Slice(0, PUT_LIMIT)

====
